---- MODULE Spec2Model ----
(***************************************************************************)
(* Robin AI GroupMe bot (src/app.py): the /webhook pipeline (parse,        *)
(* mention filter, daily token gate, completion call, ledger record,       *)
(* reply post), the /stats endpoint and the in-memory daily token ledger.  *)
(*                                                                         *)
(* Strings are sequences of one-character strings.  A request handler is   *)
(* a thread of the Flask server; the handlers share daily_token_usage and  *)
(* the wall clock and nothing else.                                        *)
(***************************************************************************)
EXTENDS Integers, Sequences, FiniteSets, TLC

VARIABLES
    GROUPME_BOT_ID,      \* configuration, app.py:40 ("" when the variable is unset)
    MAX_TOKENS_PER_DAY,  \* configuration, app.py:42
    daily_token_usage,   \* the ledger, app.py:47: day -> tokens, buckets created on demand
    today,               \* the day the wall clock shows (get_today_date)
    handler,             \* per server thread: the webhook call it is handling
    stats_response,      \* the body of the latest GET /stats response
    served               \* number of webhook calls accepted so far

vars == <<GROUPME_BOT_ID, MAX_TOKENS_PER_DAY, daily_token_usage, today, handler,
          stats_response, served>>

----------------------------------------------------------------------------
(* Bounds of the model *)

MaxTextLen == 3
MaxAttachments == 1
MaxTokens == 2
MaxCap == 2
MaxDay == 2
MaxRequests == 2

Threads == {"t1", "t2"}
Days == 1..MaxDay
TokenCounts == 0..MaxTokens
Caps == (-1)..MaxCap
BotIds == {"", "bot1"}

----------------------------------------------------------------------------
(* Strings: str.strip, str.lower, the "in" operator *)

TextChars == {" ", "@", "R", "b"}
Whitespace == {" "}

SeqsUpTo(S, n) == UNION {[1..k -> S] : k \in 0..n}

Strings == SeqsUpTo(TextChars, MaxTextLen)

\* GROUPME_BOT_NAME, app.py:41: a two-character display name with one capital
GROUPME_BOT_NAME == <<"R", "b">>

LowerChar(c) == IF c = "R" THEN "r" ELSE c

lower(s) == [i \in 1..Len(s) |-> LowerChar(s[i])]

RECURSIVE lstrip(_)
lstrip(s) == IF s = <<>> THEN s
             ELSE IF Head(s) \in Whitespace THEN lstrip(Tail(s)) ELSE s

RECURSIVE rstrip(_)
rstrip(s) == IF s = <<>> THEN s
             ELSE IF s[Len(s)] \in Whitespace THEN rstrip(SubSeq(s, 1, Len(s) - 1))
             ELSE s

strip_noop(s) == s

strip(s) == rstrip(lstrip(s))

\* Python's  sub in s
contains(sub, s) ==
    \E i \in 1..(Len(s) - Len(sub) + 1) : SubSeq(s, i, i + Len(sub) - 1) = sub

----------------------------------------------------------------------------
(* Inbound request bodies, as request.get_json() and data.get() see them *)

\* sender_type / sender_id / user_id: "" stands for an absent (or empty) field,
\* which is what data.get(key, '') yields
SenderTypes == {"bot", "user", ""}
SenderIds == {"", "bot1", "u1"}

\* text: absent, a JSON string, or a JSON value that is no string (null, a number)
TextFields == {[kind |-> "absent", val |-> <<>>], [kind |-> "nonstr", val |-> <<>>]}
              \cup {[kind |-> "str", val |-> s] : s \in Strings}

\* one attachment: an object of type "mentions", an object of another type,
\* or a JSON value that is no object
AttachmentKinds == {"mentions", "image", "nondict"}

\* attachments: a list (absent gives the default []), or a value that cannot be
\* iterated (null, a number)
AttachmentFields ==
    {[kind |-> "notiterable", items |-> <<>>]}
    \cup {[kind |-> "list", items |-> a] : a \in SeqsUpTo(AttachmentKinds, MaxAttachments)}

NoText == [kind |-> "absent", val |-> <<>>]
NoAttachments == [kind |-> "list", items |-> <<>>]

Event(st, sid, uid, txt, att) ==
    [kind |-> "object", sender_type |-> st, sender_id |-> sid, user_id |-> uid,
     text |-> txt, attachments |-> att]

\* a body that is no JSON object with content:
\*   "falsy"      valid JSON that Python treats as false: {}, [], null, 0, "", false
\*   "nonobject"  valid JSON, true in Python, not an object: [1], "abc", 5, true
\*   "malformed"  bytes that are no JSON
\*   "empty"      a body of zero bytes
OtherBody(k) == [kind |-> k, sender_type |-> "", sender_id |-> "", user_id |-> "",
                 text |-> NoText, attachments |-> NoAttachments]

NoBody == OtherBody("none")

Events == {Event(st, sid, uid, txt, att) :
              st \in SenderTypes, sid \in SenderIds, uid \in SenderIds,
              txt \in TextFields, att \in AttachmentFields}

OtherBodies == {OtherBody(k) : k \in {"falsy", "nonobject", "malformed", "empty"}}

AllBodies == Events \cup OtherBodies

\* the traffic of the multi-request specification: one body of every kind and
\* one event for every way through the filter
Str(s) == [kind |-> "str", val |-> s]
Att(a) == [kind |-> "list", items |-> a]
TrafficBodies ==
    { Event("user", "u1", "u1", Str(<<"@", "R", "b">>), NoAttachments),
      Event("user", "", "", Str(<<"R", "b">>), NoAttachments),
      Event("user", "u1", "u1", Str(<<"b">>), Att(<<"mentions">>)),
      Event("user", "u1", "u1", Str(<<"b">>), NoAttachments),
      Event("bot", "bot1", "bot1", Str(<<"R", "b">>), NoAttachments),
      Event("user", "u1", "u1", [kind |-> "nonstr", val |-> <<>>], NoAttachments),
      Event("user", "u1", "u1", Str(<<"R", "b">>), Att(<<"nondict">>)),
      OtherBody("falsy"), OtherBody("malformed") }

\* request.get_json(), app.py:169: Flask raises BadRequest on bytes that are no
\* JSON; on a body of zero bytes it returns None or raises, by content type and
\* Flask version
get_json(body) ==
    CASE body.kind = "malformed" -> {"raise"}
      [] body.kind = "empty"     -> {"None", "raise"}
      [] body.kind = "falsy"     -> {"falsy"}
      [] body.kind = "nonobject" -> {"nonobject"}
      [] OTHER                   -> {"object"}

----------------------------------------------------------------------------
(* Responses of /webhook *)

Response(code, status, message) == [code |-> code, status |-> status, message |-> message]

NoResponse == Response(0, "", "")
Proceed == Response(0, "proceed", "")

BadRequest == Response(400, "error", "Empty request")
Ignored(reason) == Response(200, "ignored", reason)
RateLimited == Response(429, "error", "Token limit reached")
UpstreamError == Response(500, "error", "OpenAI error")
Success == Response(200, "success", "")
Fault_as_bad_request == Response(400, "error", "exception")

\* lines 254-256: the answer of the except clause; "exception" stands for str(e)
Fault == Response(500, "error", "exception")

----------------------------------------------------------------------------
(* webhook, lines 167-230: parse and mention filter *)

is_bot_sender_never(sender_type) == FALSE

\* line 188
is_bot_sender(sender_type) == sender_type = "bot"

\* line 193
is_bot_id(sender_id, user_id, bot_id) == sender_id = bot_id \/ user_id = bot_id

name_in_text_case_sensitive(message_text) ==
    contains(lower(GROUPME_BOT_NAME), message_text)

\* lines 204-213
name_in_text(message_text) ==
    LET message_lower == lower(message_text)
        bot_name_lower == lower(GROUPME_BOT_NAME)
    IN  IF contains(<<"@">> \o bot_name_lower, message_lower) THEN TRUE
        ELSE IF contains(bot_name_lower, message_lower) THEN TRUE
        ELSE FALSE

\* lines 216-223: the loop over attachments; "fault" when attachment.get or the
\* iteration raises
RECURSIVE scan_items(_)
scan_items(items) ==
    IF items = <<>> THEN "none"
    ELSE IF Head(items) = "nondict" THEN "fault"
    ELSE IF Head(items) = "mentions" THEN "mentions"
    ELSE scan_items(Tail(items))

scan_attachments(attachments) ==
    IF attachments.kind = "notiterable" THEN "fault" ELSE scan_items(attachments.items)

reason_of_generic(rule) == IF rule = "not_mentioned" THEN "bot_not_mentioned" ELSE "bot_message"

\* the reason webhook attaches to the rejection by each rule of the filter,
\* lines 190, 195, 200 and 228
reason_of(rule) ==
    CASE rule = "bot_originated" -> "bot_message"
      [] rule = "id_match"       -> "bot_message"
      [] rule = "empty_message"  -> "empty_message"
      [] rule = "not_mentioned"  -> "bot_not_mentioned"

\* lines 179-230 on a JSON object
webhook_filter(data, bot_id) ==
    IF data.text.kind = "nonstr" THEN Fault                       \* line 181
    ELSE
    LET message_text == strip(data.text.val)
        scan == scan_attachments(data.attachments)
    IN  IF is_bot_sender(data.sender_type) THEN Ignored(reason_of("bot_originated"))
        ELSE IF is_bot_id(data.sender_id, data.user_id, bot_id)
             THEN Ignored(reason_of("id_match"))
        ELSE IF message_text = <<>> THEN Ignored(reason_of("empty_message"))
        ELSE IF scan = "fault" THEN Fault
        ELSE IF ~(name_in_text(message_text) \/ scan = "mentions")
             THEN Ignored(reason_of("not_mentioned"))
        ELSE Proceed

\* lines 167-230 and 254-256: parsed is what get_json gave
webhook_front(body, parsed, bot_id) ==
    CASE parsed = "raise"     -> Fault        \* caught at line 254
      [] parsed = "None"      -> BadRequest   \* line 171
      [] parsed = "falsy"     -> BadRequest
      [] parsed = "nonobject" -> Fault        \* data.get raises, line 179
      [] OTHER                -> webhook_filter(body, bot_id)

----------------------------------------------------------------------------
(* UsageTracker: check_token_limit and update_token_usage, lines 71-93 *)

\* daily_token_usage.get(day, 0)
usage_get(usage, day) == IF day \in DOMAIN usage THEN usage[day] ELSE 0

\* daily_token_usage[day] = value
usage_put(usage, day, value) ==
    [d \in DOMAIN usage \cup {day} |-> IF d = day THEN value ELSE usage[d]]

check_token_limit_above(tokens_used_today, cap) ==
    IF tokens_used_today > cap THEN FALSE ELSE TRUE

check_token_limit_unset_cap(tokens_used_today, cap) ==
    IF cap > 0 /\ tokens_used_today >= cap THEN FALSE ELSE TRUE

\* lines 77-82 on the count read at line 77
check_token_limit(tokens_used_today, cap) ==
    IF tokens_used_today >= cap THEN FALSE ELSE TRUE

----------------------------------------------------------------------------
(* ChatGateway and ResponderClient, lines 96-155 *)

\* lines 105-116: the number of HTTP posts one call of send_group_message
\* issues; none when GROUPME_BOT_ID is not configured
http_posts(bot_id) == IF bot_id = "" THEN 0 ELSE 1

\* lines 105-123: accepted is whether the platform accepts the post
send_group_message(bot_id, accepted) ==
    IF bot_id = "" THEN FALSE ELSE accepted

\* lines 134-155: what get_openai_response can return.  response_text is
\* "None" (an exception gives (None, 0); a completion without content gives None
\* with the tokens it cost), "empty" (the empty string) or "text"
CompletionResults ==
    {[response_text |-> r, tokens_used |-> n] : r \in {"None", "empty", "text"},
                                                n \in TokenCounts}

no_response_text_empty_only(response_text) == response_text = "empty"

\* line 241: not response_text
no_response_text(response_text) == response_text \in {"None", "empty"}

----------------------------------------------------------------------------
(* State of one handler thread *)

IdleHandler ==
    [pc |-> "idle",              \* idle, rate_check, generate, update_read,
                                 \* update_write, reply, done
     data |-> NoBody,            \* the request body
     limit_read |-> -1,          \* tokens_used_today read by check_token_limit
     response_text |-> "unset",  \* locals of webhook, line 239
     tokens_used |-> 0,
     usage_day |-> 0,            \* locals of update_token_usage, lines 91-92
     usage_read |-> 0,
     response |-> NoResponse,    \* what webhook returned
     completion_calls |-> 0,     \* calls of the completion API made for this request
     send_calls |-> 0,           \* calls of send_group_message
     chat_posts |-> 0,           \* HTTP posts to the chat platform
     sent_text |-> "none",       \* apology, fallback or reply
     sent_ok |-> FALSE,          \* result of send_group_message
     ledger_writes |-> 0,        \* stores into daily_token_usage
     ledger_growth |-> 0]        \* change of the day's bucket by this request's store

NoStats == [date |-> 0, tokens_used_today |-> 0, max_tokens_per_day |-> 0,
            tokens_remaining |-> 0, percentage_used |-> 0]

Init ==
    /\ GROUPME_BOT_ID \in BotIds
    /\ MAX_TOKENS_PER_DAY \in Caps
    /\ daily_token_usage = [d \in {} |-> 0]
    /\ today = 1
    /\ handler = [t \in Threads |-> IdleHandler]
    /\ stats_response = NoStats
    /\ served = 0

Config == <<GROUPME_BOT_ID, MAX_TOKENS_PER_DAY>>

\* the handler's call of send_group_message(text) and its bookkeeping
Sent(h, kind, accepted) ==
    [h EXCEPT !.send_calls = @ + 1,
              !.chat_posts = @ + http_posts(GROUPME_BOT_ID),
              !.sent_text = kind,
              !.sent_ok = send_group_message(GROUPME_BOT_ID, accepted)]

Returned_retry(h, resp) ==
    IF resp = UpstreamError
    THEN [IdleHandler EXCEPT !.data = h.data, !.pc = "rate_check"]
    ELSE [h EXCEPT !.pc = "done", !.response = resp]

Returned(h, resp) == [h EXCEPT !.pc = "done", !.response = resp]

response_after_send_checked(resp, sent_ok) == IF sent_ok THEN resp ELSE Fault

\* lines 235-236, 243-244, 250-252: the result of send_group_message is
\* dropped; webhook returns the response it had decided on
response_after_send(resp, sent_ok) == resp

\* send_group_message(text) followed by the return
SentAndReturned(h, kind, accepted, resp) ==
    LET s == Sent(h, kind, accepted)
    IN  Returned(s, response_after_send(resp, s.sent_ok))

completion_attempts_retry(response_text) == IF response_text = "None" THEN 2 ELSE 1

\* lines 137-145: one call of the completion API per get_openai_response,
\* whatever comes back
completion_attempts(response_text) == 1

----------------------------------------------------------------------------
(* Actions *)

\* webhook, lines 167-230: a thread takes a request, parses and filters it
webhook_receive(t, bodies) ==
    /\ handler[t].pc = "idle"
    /\ served < MaxRequests
    /\ \E body \in bodies : \E parsed \in get_json(body) :
         LET r == webhook_front(body, parsed, GROUPME_BOT_ID)
             h == [IdleHandler EXCEPT !.data = body]
         IN  handler' = [handler EXCEPT ![t] =
                 IF r = Proceed THEN [h EXCEPT !.pc = "rate_check"]
                 ELSE Returned(h, r)]
    /\ served' = served + 1
    /\ UNCHANGED <<Config, daily_token_usage, today, stats_response>>

\* webhook, lines 233-236, with check_token_limit, lines 76-82
webhook_rate_check(t) ==
    /\ handler[t].pc = "rate_check"
    /\ LET tokens_used_today == usage_get(daily_token_usage, today)
           h == [handler[t] EXCEPT !.limit_read = tokens_used_today]
       IN  \E accepted \in BOOLEAN :
             handler' = [handler EXCEPT ![t] =
                 IF check_token_limit(tokens_used_today, MAX_TOKENS_PER_DAY)
                 THEN [h EXCEPT !.pc = "generate"]
                 ELSE SentAndReturned(h, "apology", accepted, RateLimited)]
    /\ UNCHANGED <<Config, daily_token_usage, today, stats_response, served>>

\* webhook, lines 239-244, with get_openai_response, lines 134-155
webhook_generate(t) ==
    /\ handler[t].pc = "generate"
    /\ \E c \in CompletionResults, accepted \in BOOLEAN :
         LET h == [handler[t] EXCEPT !.completion_calls =
                                         @ + completion_attempts(c.response_text),
                                     !.response_text = c.response_text,
                                     !.tokens_used = c.tokens_used]
         IN  handler' = [handler EXCEPT ![t] =
                 IF no_response_text(c.response_text)
                 THEN SentAndReturned(h, "fallback", accepted, UpstreamError)
                 ELSE [h EXCEPT !.pc = "update_read"]]
    /\ UNCHANGED <<Config, daily_token_usage, today, stats_response, served>>

\* update_token_usage, lines 91-92: today and daily_token_usage.get(today, 0)
update_token_usage_read(t) ==
    /\ handler[t].pc = "update_read"
    /\ handler' = [handler EXCEPT ![t] =
           [@ EXCEPT !.pc = "update_write",
                     !.usage_day = today,
                     !.usage_read = usage_get(daily_token_usage, today)]]
    /\ UNCHANGED <<Config, daily_token_usage, today, stats_response, served>>

\* update_token_usage, line 92: the store of the sum
update_token_usage_write(t) ==
    /\ handler[t].pc = "update_write"
    /\ LET h == handler[t]
           value == h.usage_read + h.tokens_used
       IN  /\ daily_token_usage' = usage_put(daily_token_usage, h.usage_day, value)
           /\ handler' = [handler EXCEPT ![t] =
                  [@ EXCEPT !.pc = "reply",
                            !.ledger_writes = @ + 1,
                            !.ledger_growth =
                                value - usage_get(daily_token_usage, h.usage_day)]]
    /\ UNCHANGED <<Config, today, stats_response, served>>

\* webhook, lines 250-252
webhook_reply(t) ==
    /\ handler[t].pc = "reply"
    /\ \E accepted \in BOOLEAN :
         handler' = [handler EXCEPT ![t] =
             SentAndReturned(handler[t], "reply", accepted, Success)]
    /\ UNCHANGED <<Config, daily_token_usage, today, stats_response, served>>

\* the response is out and the thread is free for the next request
webhook_return(t) ==
    /\ handler[t].pc = "done"
    /\ handler' = [handler EXCEPT ![t] = IdleHandler]
    /\ UNCHANGED <<Config, daily_token_usage, today, stats_response, served>>

\* round(x * 100, 2) of line 282 in hundredths of a percent, halves to even
percentage(used, cap) ==
    LET n == used * 10000
        q == n \div cap
        r == n % cap
    IN  IF 2 * r > cap \/ (2 * r = cap /\ q % 2 = 1) THEN q + 1 ELSE q

max0_identity(x) == x

max0(x) == IF x > 0 THEN x ELSE 0

\* the JSON body of GET /stats, lines 277-283 (percentage_used in hundredths)
stats_body(date, tokens_used_today, cap) ==
    [date |-> date,
     tokens_used_today |-> tokens_used_today,
     max_tokens_per_day |-> cap,
     tokens_remaining |-> max0(cap - tokens_used_today),
     percentage_used |-> IF cap > 0 THEN percentage(tokens_used_today, cap) ELSE 0]

\* stats, lines 274-283
stats ==
    /\ stats_response' =
         stats_body(today, usage_get(daily_token_usage, today), MAX_TOKENS_PER_DAY)
    /\ UNCHANGED <<Config, daily_token_usage, today, handler, served>>

\* midnight: get_today_date, lines 65-68, gives the next date from now on
midnight ==
    /\ today < MaxDay
    /\ today' = today + 1
    /\ UNCHANGED <<Config, daily_token_usage, handler, stats_response, served>>

----------------------------------------------------------------------------
(* Specifications *)

\* the service handling one request after another, with /stats and the clock
Next ==
    \/ webhook_receive("t1", TrafficBodies)
    \/ webhook_rate_check("t1")
    \/ webhook_generate("t1")
    \/ update_token_usage_read("t1")
    \/ update_token_usage_write("t1")
    \/ webhook_reply("t1")
    \/ webhook_return("t1")
    \/ stats
    \/ midnight

Spec == Init /\ [][Next]_vars

\* the steps of webhook after the request is taken, lines 233-252
webhook_step(t) ==
    \/ webhook_rate_check(t)
    \/ webhook_generate(t)
    \/ update_token_usage_read(t)
    \/ update_token_usage_write(t)
    \/ webhook_reply(t)

\* the same service where a handler that can take its next step takes it: the
\* statements of webhook run one after the other, the chat post is bounded by
\* timeout=10 (line 115) and the completion call returns or raises (lines
\* 137-155)
SpecLive == Init /\ [][Next]_vars /\ WF_vars(webhook_step("t1"))

\* the threaded server (app.run, line 293): two requests handled concurrently
NextThreads ==
    \/ \E t \in Threads : webhook_receive(t, TrafficBodies)
    \/ \E t \in Threads : webhook_rate_check(t)
    \/ \E t \in Threads : webhook_generate(t)
    \/ \E t \in Threads : update_token_usage_read(t)
    \/ \E t \in Threads : update_token_usage_write(t)
    \/ \E t \in Threads : webhook_reply(t)
    \/ \E t \in Threads : webhook_return(t)
    \/ stats
    \/ midnight

SpecThreads == Init /\ [][NextThreads]_vars

\* one webhook call on a fresh process, over every request body
NextCall ==
    \/ served = 0 /\ webhook_receive("t1", AllBodies)
    \/ webhook_rate_check("t1")
    \/ webhook_generate("t1")
    \/ update_token_usage_read("t1")
    \/ update_token_usage_write("t1")
    \/ webhook_reply("t1")

SpecCall == Init /\ [][NextCall]_vars

----------------------------------------------------------------------------
(* Vocabulary of the properties *)

\* the request thread t is handling, or handled last
Handled(t) == handler[t].pc # "idle"

IsEvent(h) == h.data.kind = "object"

\* the request made no outbound call and stored nothing in the ledger
NoSideEffects(h) ==
    /\ h.completion_calls = 0
    /\ h.send_calls = 0
    /\ h.chat_posts = 0
    /\ h.ledger_writes = 0

IsIgnored(h) ==
    /\ h.pc = "done"
    /\ h.response.code = 200
    /\ h.response.status = "ignored"
    /\ NoSideEffects(h)

\* chat posts that one call of the gateway is expected to issue
ExpectedPosts == IF GROUPME_BOT_ID = "" THEN 0 ELSE 1

\* the text is a string (or absent) that is empty once trimmed
BlankText(txt) ==
    txt.kind \in {"absent", "str"} /\ \A i \in 1..Len(txt.val) : txt.val[i] \in Whitespace

\* the text is a string that is not empty once trimmed
SolidText(txt) ==
    txt.kind = "str" /\ \E i \in 1..Len(txt.val) : txt.val[i] \notin Whitespace

NameInText(txt) == contains(lower(GROUPME_BOT_NAME), lower(txt.val))

HasMentionsAttachment(att) == \E i \in 1..Len(att.items) : att.items[i] = "mentions"

\* attachments is a list of objects
WellFormedAttachments(att) ==
    att.kind = "list" /\ \A i \in 1..Len(att.items) : att.items[i] # "nondict"

\* the event went past the filter to the rate check
ReachedRateCheck(h) == h.pc = "rate_check" \/ h.limit_read >= 0

UsageToday == usage_get(daily_token_usage, today)

----------------------------------------------------------------------------
(* C1: rate-limited path *)

RateLimitedCase(h) == h.limit_read >= 0 /\ h.limit_read >= MAX_TOKENS_PER_DAY

\* C1 as stated: every event that passes the filter while the day's count is at
\* or over the cap makes no completion call, issues exactly one chat post (the
\* apology), stores nothing in the ledger and is answered 429 / error.
C1_RateLimitedOnePost ==
    \A t \in Threads :
        LET h == handler[t]
        IN  RateLimitedCase(h) =>
              /\ h.pc = "done"
              /\ h.completion_calls = 0
              /\ h.chat_posts = 1
              /\ h.sent_text = "apology"
              /\ h.ledger_writes = 0
              /\ h.response.code = 429
              /\ h.response.status = "error"

\* C1 amended: as above, but the apology is one call of send_group_message,
\* which issues one chat post when GROUPME_BOT_ID is configured and none when
\* it is empty.
C1_RateLimited ==
    \A t \in Threads :
        LET h == handler[t]
        IN  RateLimitedCase(h) =>
              /\ h.pc = "done"
              /\ h.completion_calls = 0
              /\ h.send_calls = 1
              /\ h.chat_posts = ExpectedPosts
              /\ h.sent_text = "apology"
              /\ h.ledger_writes = 0
              /\ h.response.code = 429
              /\ h.response.status = "error"

\* a request refused at a positive cap that earlier requests used up, with
\* its apology posted
C1_Witness ==
    \E t \in Threads :
        /\ RateLimitedCase(handler[t])
        /\ MAX_TOKENS_PER_DAY > 0
        /\ handler[t].response = RateLimited
        /\ handler[t].chat_posts = 1

----------------------------------------------------------------------------
(* C2: success path *)

\* an id field that is absent, or present and not the bot's
NotTheBot(id) == id = "" \/ id # GROUPME_BOT_ID

\* the events of C2: non-bot sender_type, text that mentions the bot, no
\* attachments; sender_id and user_id may be absent, and are not the bot's
\* when present
ScenarioEvent(h) ==
    /\ IsEvent(h)
    /\ h.data.sender_type # "bot"
    /\ SolidText(h.data.text)
    /\ NameInText(h.data.text)
    /\ h.data.attachments = NoAttachments
    /\ NotTheBot(h.data.sender_id)
    /\ NotTheBot(h.data.user_id)

\* the day's count was under the cap when the request was handled
UnderCap(h) ==
    IF h.limit_read >= 0 THEN h.limit_read < MAX_TOKENS_PER_DAY
    ELSE UsageToday < MAX_TOKENS_PER_DAY

\* the completion call did not come back without text
NoCompletionFailure(h) == h.response_text \notin {"None", "empty"}

SuccessOutcome(h) ==
    /\ h.completion_calls = 1
    /\ h.chat_posts = 1
    /\ h.sent_text = "reply"
    /\ h.ledger_writes = 1
    /\ h.ledger_growth = h.tokens_used
    /\ h.response.code = 200
    /\ h.response.status = "success"

\* C2 as stated: every such event, handled under the cap with a completion that
\* returns text, ends with one completion call, one chat post carrying the
\* text, the ledger grown by the reported tokens and 200 / success.
C2_SuccessPath ==
    \A t \in Threads :
        LET h == handler[t]
        IN  (h.pc = "done" /\ ScenarioEvent(h) /\ UnderCap(h) /\ NoCompletionFailure(h))
            => SuccessOutcome(h)

----------------------------------------------------------------------------
(* C3: events from a bot *)

\* C3 as stated: an event with sender_type "bot" is Ignored whatever its text
\* field holds and whatever its attachments.
C3_BotIgnoredAnyText ==
    \A t \in Threads :
        LET h == handler[t]
        IN  (Handled(t) /\ IsEvent(h) /\ h.data.sender_type = "bot") => IsIgnored(h)

\* C3 amended: an event with sender_type "bot" whose text field is absent or a
\* string is Ignored, whatever the string and whatever its attachments.
C3_BotIgnored ==
    \A t \in Threads :
        LET h == handler[t]
        IN  (/\ Handled(t) /\ IsEvent(h) /\ h.data.sender_type = "bot"
             /\ h.data.text.kind \in {"absent", "str"})
            => IsIgnored(h)

\* a bot's event that names the bot, carries a mentions attachment and comes
\* from another id than ours, ignored
C3_Witness ==
    \E t \in Threads :
        LET h == handler[t]
        IN  /\ IsEvent(h) /\ h.data.sender_type = "bot"
            /\ SolidText(h.data.text) /\ NameInText(h.data.text)
            /\ HasMentionsAttachment(h.data.attachments)
            /\ h.data.sender_id # GROUPME_BOT_ID /\ h.data.user_id # GROUPME_BOT_ID
            /\ IsIgnored(h)

----------------------------------------------------------------------------
(* C4: upstream failure path *)

FailedCompletion(h) ==
    h.completion_calls > 0 /\ h.response_text = "None" /\ h.tokens_used = 0

\* C4 as stated: when the completion call fails, exactly one chat post (the
\* fallback), no tokens recorded, 500 / error.
C4_UpstreamFailureOnePost ==
    \A t \in Threads :
        LET h == handler[t]
        IN  FailedCompletion(h) =>
              /\ h.pc = "done"
              /\ h.completion_calls = 1
              /\ h.chat_posts = 1
              /\ h.sent_text = "fallback"
              /\ h.ledger_writes = 0
              /\ h.response.code = 500
              /\ h.response.status = "error"

\* C4 amended: as above, but the fallback is one call of send_group_message,
\* which issues one chat post when GROUPME_BOT_ID is configured and none when
\* it is empty.
C4_UpstreamFailure ==
    \A t \in Threads :
        LET h == handler[t]
        IN  FailedCompletion(h) =>
              /\ h.pc = "done"
              /\ h.completion_calls = 1
              /\ h.send_calls = 1
              /\ h.chat_posts = ExpectedPosts
              /\ h.sent_text = "fallback"
              /\ h.ledger_writes = 0
              /\ h.response.code = 500
              /\ h.response.status = "error"

\* a failed completion answered 500 with the fallback posted
C4_Witness ==
    \E t \in Threads :
        /\ FailedCompletion(handler[t])
        /\ handler[t].response = UpstreamError
        /\ handler[t].chat_posts = 1
        /\ handler[t].sent_text = "fallback"

----------------------------------------------------------------------------
(* C5: bad request path *)

\* C5: a body that is empty or is no JSON object is answered 400 / error, with
\* no completion call, no chat post and the ledger unchanged.
C5_BadRequest ==
    \A t \in Threads :
        LET h == handler[t]
        IN  (Handled(t) /\ h.data.kind \in {"empty", "malformed", "nonobject", "falsy"})
            => /\ h.pc = "done"
               /\ h.response.code = 400
               /\ h.response.status = "error"
               /\ NoSideEffects(h)

----------------------------------------------------------------------------
(* C6: rate limit boundary *)

\* C6: check_token_limit is true exactly when the day's count is strictly below
\* the cap: false at count = cap, true at cap - 1, false for every count when
\* the cap is zero or less; and each request takes the branch that says.
C6_LimitBoundary ==
    /\ check_token_limit(UsageToday, MAX_TOKENS_PER_DAY) <=> UsageToday < MAX_TOKENS_PER_DAY
    /\ MAX_TOKENS_PER_DAY <= 0 => ~check_token_limit(UsageToday, MAX_TOKENS_PER_DAY)
    /\ \A t \in Threads :
         LET h == handler[t]
         IN  h.limit_read >= 0 =>
               /\ h.limit_read < MAX_TOKENS_PER_DAY => h.response # RateLimited
               /\ h.limit_read >= MAX_TOKENS_PER_DAY => h.response = RateLimited

\* a request refused with the count exactly at a positive cap
C6_Witness ==
    \E t \in Threads :
        /\ handler[t].limit_read = MAX_TOKENS_PER_DAY
        /\ MAX_TOKENS_PER_DAY > 0
        /\ handler[t].response = RateLimited

----------------------------------------------------------------------------
(* C7: mention detection *)

C7Event(h) ==
    /\ IsEvent(h)
    /\ h.data.sender_type # "bot"
    /\ h.data.sender_id # GROUPME_BOT_ID
    /\ h.data.user_id # GROUPME_BOT_ID
    /\ SolidText(h.data.text)

Mentioned(data) == NameInText(data.text) \/ HasMentionsAttachment(data.attachments)

MentionRule(h) ==
    /\ Mentioned(h.data) => ReachedRateCheck(h)
    /\ ~Mentioned(h.data) => IsIgnored(h)

\* C7 as stated: for every event with a non-bot sender, ids other than the
\* bot's and text that is not empty once trimmed, the bot is mentioned iff the
\* lower-cased text contains the lower-cased name or an attachment has type
\* "mentions"; mentioned events go on to the rate check, the others are Ignored.
C7_MentionAnyAttachments ==
    \A t \in Threads :
        LET h == handler[t] IN (Handled(t) /\ C7Event(h)) => MentionRule(h)

\* C7 amended: the same for the events whose attachments field is absent or a
\* list of objects.
C7_Mention ==
    \A t \in Threads :
        LET h == handler[t]
        IN  (Handled(t) /\ C7Event(h) /\ WellFormedAttachments(h.data.attachments))
            => MentionRule(h)

\* an event whose text does not name the bot, past the filter on its mentions
\* attachment alone
C7_Witness ==
    \E t \in Threads :
        LET h == handler[t]
        IN  /\ C7Event(h)
            /\ ~NameInText(h.data.text)
            /\ HasMentionsAttachment(h.data.attachments)
            /\ h.limit_read >= 0

----------------------------------------------------------------------------
(* C8: empty text *)

\* C8: an event whose text is empty once trimmed is Ignored, also when it
\* carries a mentions attachment.
C8_EmptyTextIgnored ==
    \A t \in Threads :
        LET h == handler[t]
        IN  (Handled(t) /\ IsEvent(h) /\ BlankText(h.data.text)) => IsIgnored(h)

\* whitespace-only text from a user, with a mentions attachment, ignored as an
\* empty message
C8_Witness ==
    \E t \in Threads :
        LET h == handler[t]
        IN  /\ IsEvent(h)
            /\ h.data.text.kind = "str" /\ Len(h.data.text.val) > 0
            /\ BlankText(h.data.text)
            /\ HasMentionsAttachment(h.data.attachments)
            /\ h.response = Ignored("empty_message")

----------------------------------------------------------------------------
(* C9: the day's count never decreases *)

LedgerNonNegative == \A d \in DOMAIN daily_token_usage : daily_token_usage[d] >= 0

LedgerStep ==
    \A d \in DOMAIN daily_token_usage :
        d \in DOMAIN daily_token_usage' /\ daily_token_usage'[d] >= daily_token_usage[d]

StatsStep ==
    (stats_response.date # 0 /\ stats_response'.date = stats_response.date)
    => stats_response'.tokens_used_today >= stats_response.tokens_used_today

\* C9: under any interleaving of webhook and stats calls, no bucket is ever
\* negative, no bucket ever decreases, and tokens_used_today of GET /stats never
\* goes down within a day.
C9_Monotonic == []LedgerNonNegative /\ [][LedgerStep /\ StatsStep]_vars

----------------------------------------------------------------------------
(* C10: overshoot of the cap under concurrency *)

MaxOf(a, b) == IF a >= b THEN a ELSE b

\* C10: when two calls that both passed the rate check have both recorded, the
\* day's count exceeds the cap by no more than the tokens of one completion.
C10_Overshoot ==
    \A t1 \in Threads : \A t2 \in Threads \ {t1} :
        LET h1 == handler[t1]
            h2 == handler[t2]
        IN  (/\ h1.ledger_writes = 1 /\ h2.ledger_writes = 1
             /\ h1.usage_day = h2.usage_day)
            => usage_get(daily_token_usage, h1.usage_day) - MAX_TOKENS_PER_DAY
                 <= MaxOf(h1.tokens_used, h2.tokens_used)

----------------------------------------------------------------------------
(* C11: a failed chat post does not change the outcome *)

\* the response webhook returns after each of its three sends
OutcomeOfSend(h) ==
    /\ h.sent_text = "apology" => h.response = RateLimited
    /\ h.sent_text = "fallback" => h.response = UpstreamError
    /\ h.sent_text = "reply" => (h.response = Success /\ h.ledger_writes = 1)

\* the step that sends the reply and returns leaves the ledger as it was
ReplyKeepsLedger ==
    \A t \in Threads :
        (handler[t].pc = "reply" /\ handler'[t].pc = "done")
        => daily_token_usage' = daily_token_usage

\* C11: whether the chat post succeeds or fails, a call that sent the reply
\* returns 200 success with its tokens recorded and the ledger untouched by
\* the send, a call that sent the apology returns 429 and a call that sent the
\* fallback returns 500.
C11_PostFailureKeepsOutcome ==
    /\ [](\A t \in Threads :
            LET h == handler[t] IN (h.pc = "done" /\ h.send_calls = 1) => OutcomeOfSend(h))
    /\ [][ReplyKeepsLedger]_vars

\* a reply whose post was issued and failed, after tokens were recorded
C11_Witness ==
    \E t \in Threads :
        LET h == handler[t]
        IN  /\ h.pc = "done"
            /\ h.sent_text = "reply"
            /\ h.chat_posts = 1
            /\ ~h.sent_ok
            /\ h.tokens_used > 0
            /\ h.response = Success
            /\ usage_get(daily_token_usage, h.usage_day) >= h.tokens_used

----------------------------------------------------------------------------
(* C12: one completion call and one chat post at most *)

\* the event went through parsing and the filter and was found under the cap
PassedRateCheck(h) ==
    /\ IsEvent(h)
    /\ h.limit_read >= 0
    /\ h.limit_read < MAX_TOKENS_PER_DAY

----------------------------------------------------------------------------
(* C13: GET /stats with a cap of zero or less *)

\* the counts a day's bucket can hold
Counts == 0..(MaxCap + MaxTokens)

StatsBodyRule(b) ==
    /\ b.tokens_remaining >= 0
    /\ b.max_tokens_per_day <= 0 => (b.percentage_used = 0 /\ b.tokens_remaining = 0)

\* C13: for every cap and every count the body of GET /stats has
\* tokens_remaining >= 0, and for every cap of zero or less it has
\* percentage_used = 0 and tokens_remaining = 0; the same holds of every body
\* the service has answered with.
C13_StatsNonPositiveCap ==
    /\ \A cap \in Caps : \A used \in Counts : StatsBodyRule(stats_body(today, used, cap))
    /\ stats_response.date # 0 => StatsBodyRule(stats_response)

\* GET /stats answered under a negative cap
C13_Witness ==
    /\ stats_response.date # 0
    /\ MAX_TOKENS_PER_DAY < 0
    /\ stats_response.max_tokens_per_day = MAX_TOKENS_PER_DAY
    /\ stats_response.tokens_remaining = 0
    /\ stats_response.percentage_used = 0

----------------------------------------------------------------------------
(* C14: internal faults *)

\* iterating the attachments raises before a "mentions" attachment is found
FaultyAttachments(att) ==
    \/ att.kind = "notiterable"
    \/ \E i \in 1..Len(att.items) :
         /\ att.items[i] = "nondict"
         /\ \A j \in 1..(i - 1) : att.items[j] # "mentions"

\* the request raises inside webhook: the body is no JSON or no object, the text
\* is no string, or the attachments loop is reached and raises
FaultRaised(h) ==
    \/ h.data.kind \in {"malformed", "nonobject"}
    \/ IsEvent(h) /\ h.data.text.kind = "nonstr"
    \/ C7Event(h) /\ FaultyAttachments(h.data.attachments)

FaultAnswered(h) ==
    /\ h.pc = "done"
    /\ h.response.code = 500
    /\ h.response.status = "error"
    /\ h.response.message = "exception"
    /\ NoSideEffects(h)

\* the next step of a handler that answered a fault hands the thread back as it
\* was at start, with the ledger as the faulting call found it
FaultThenIdle ==
    \A t \in Threads :
        (Handled(t) /\ FaultRaised(handler[t]) /\ handler'[t] # handler[t])
        => (handler'[t] = IdleHandler /\ daily_token_usage' = daily_token_usage)

\* C14: a request that raises inside the handler is answered 500 / error with
\* the description of the fault, having made no outbound call and no ledger
\* store, and the thread is then free, in its initial state, for the next event.
C14_FaultIsolated ==
    /\ [](\A t \in Threads :
            (Handled(t) /\ FaultRaised(handler[t])) => FaultAnswered(handler[t]))
    /\ [][FaultThenIdle]_vars

\* the second request of a run is answered 500 for a text that is no string
C14_Witness ==
    \E t \in Threads :
        /\ served > 1
        /\ IsEvent(handler[t])
        /\ handler[t].data.text.kind = "nonstr"
        /\ handler[t].response = Fault

----------------------------------------------------------------------------
(* C15: every call reaches one terminal outcome *)

\* position of a step in the pipeline
Rank(pc) ==
    CASE pc = "idle" -> 0
      [] pc = "rate_check" -> 1
      [] pc = "generate" -> 2
      [] pc = "update_read" -> 3
      [] pc = "update_write" -> 4
      [] pc = "reply" -> 5
      [] pc = "done" -> 6

InFlight(t) == handler[t].pc \notin {"idle", "done"}

FiveOutcomes ==
    {BadRequest, RateLimited, UpstreamError, Success}
    \cup {Ignored(r) : r \in {"bot_message", "empty_message", "bot_not_mentioned"}}

\* a handler only moves forward; having answered, it keeps its answer until the
\* thread is handed back
Forward ==
    \A t \in Threads :
        handler'[t] # handler[t] =>
            IF handler[t].pc = "done" THEN handler'[t] = IdleHandler
            ELSE Rank(handler'[t].pc) > Rank(handler[t].pc)

Terminates == \A t \in Threads : InFlight(t) ~> (handler[t].pc = "done")

\* C15 as stated, for the calls whose body is a JSON object: every call
\* eventually answers, its answer is one of bad request (400), ignored (200),
\* rate limited (429), upstream error (500) and success (200), and no step goes
\* back to an earlier one.
C15_FiveOutcomes ==
    /\ [](\A t \in Threads :
            (handler[t].pc = "done" /\ IsEvent(handler[t]))
            => handler[t].response \in FiveOutcomes)
    /\ [][Forward]_vars
    /\ Terminates

\* C15 amended: every call eventually answers, its answer is one of the five
\* or the 500 / error of an internal fault, and no step goes back to an earlier
\* one.
C15_Terminates ==
    /\ [](\A t \in Threads :
            handler[t].pc = "done" => handler[t].response \in FiveOutcomes \cup {Fault})
    /\ [][Forward]_vars
    /\ Terminates

\* a call that went through every step to its answer
C15_Witness ==
    \E t \in Threads :
        /\ handler[t].pc = "done"
        /\ handler[t].response = Success
        /\ handler[t].completion_calls = 1
        /\ handler[t].ledger_writes = 1
        /\ handler[t].send_calls = 1

----------------------------------------------------------------------------
(* C16: order of the pipeline *)

\* C16: the rate check is reached only by events that pass the filter, the
\* completion call is made only after the rate check let the event through,
\* tokens are stored only after a completion that returned text, the generated
\* text is posted only after its tokens are stored, and a call that does not
\* end in success stores nothing.
C16_PipelineOrder ==
    \A t \in Threads :
        LET h == handler[t]
        IN  /\ ReachedRateCheck(h) => (C7Event(h) /\ Mentioned(h.data))
            /\ h.completion_calls > 0 => PassedRateCheck(h)
            /\ h.pc \in {"update_read", "update_write"} =>
                  (h.completion_calls = 1 /\ h.response_text = "text" /\ h.ledger_writes = 0)
            /\ h.ledger_writes > 0 => (h.completion_calls = 1 /\ h.response_text = "text")
            /\ h.sent_text = "reply" => h.ledger_writes = 1
            /\ h.pc = "reply" => (h.ledger_writes = 1 /\ h.send_calls = 0)
            /\ (h.pc = "done" /\ h.response # Success) => h.ledger_writes = 0

\* tokens stored, reply not yet posted
C16_Witness ==
    \E t \in Threads :
        LET h == handler[t]
        IN  /\ h.pc = "reply"
            /\ h.tokens_used > 0
            /\ h.ledger_writes = 1
            /\ usage_get(daily_token_usage, h.usage_day) = h.tokens_used
            /\ h.send_calls = 0
            /\ h.sent_text = "none"

----------------------------------------------------------------------------
(* C17: frame of the ledger operations *)

\* the store of update_token_usage by thread t
IsRecordStep(t) == handler[t].pc = "update_write" /\ handler'[t] # handler[t]

\* record(t) adds exactly its tokens to the bucket of its day, which counts
\* from zero when absent, and leaves every other bucket as it was
RecordStep ==
    \A t \in Threads :
        IsRecordStep(t) =>
            LET day == handler[t].usage_day
            IN  /\ usage_get(daily_token_usage', day)
                     = usage_get(daily_token_usage, day) + handler[t].tokens_used
                /\ DOMAIN daily_token_usage' = DOMAIN daily_token_usage \cup {day}
                /\ \A d \in DOMAIN daily_token_usage \ {day} :
                       daily_token_usage'[d] = daily_token_usage[d]

\* no other step, check_token_limit and GET /stats among them, creates or
\* changes a bucket
ReadOnlyStep ==
    daily_token_usage' # daily_token_usage => \E t \in Threads : IsRecordStep(t)

\* the rate check reads the bucket of the current day and no other
CheckReadsToday ==
    \A t \in Threads :
        (handler[t].pc = "rate_check" /\ handler'[t] # handler[t])
        => handler'[t].limit_read = usage_get(daily_token_usage, today)

\* C17: record(t) increases the bucket of its day by exactly t, creating it
\* from zero if absent, and leaves the other days' buckets unchanged; the rate
\* check and GET /stats never create or change a bucket, and the rate check
\* counts the current day's bucket only.
C17_RecordFrame == [][RecordStep /\ ReadOnlyStep /\ CheckReadsToday]_vars

----------------------------------------------------------------------------
(* C18: the id-match rule *)

\* the answer of line 195 to an event whose sender_type is not "bot"
RejectedByIdMatch(h) == IsIgnored(h) /\ h.response = Ignored("bot_message")

\* a bot identifier is configured and the event carries it as sender_id or
\* user_id
SenderIsConfiguredBot(data) ==
    /\ GROUPME_BOT_ID # ""
    /\ (data.sender_id = GROUPME_BOT_ID \/ data.user_id = GROUPME_BOT_ID)

\* C18: an event whose sender_type is not "bot" is rejected by the id-match
\* rule iff its sender identifier is the configured bot identifier; with no bot
\* identifier configured, or no sender_id or user_id in the event, an event
\* that mentions the bot is not rejected by this rule.
C18_IdMatch ==
    \A t \in Threads :
        LET h == handler[t]
        IN  (/\ Handled(t)
             /\ IsEvent(h)
             /\ h.data.sender_type # "bot"
             /\ h.data.text.kind # "nonstr")
            => /\ RejectedByIdMatch(h) <=> SenderIsConfiguredBot(h.data)
               /\ ((GROUPME_BOT_ID = "" \/ (h.data.sender_id = "" /\ h.data.user_id = ""))
                   /\ Mentioned(h.data)) => ~RejectedByIdMatch(h)

----------------------------------------------------------------------------
(* C19: reasons of the Ignored outcome *)

FilterRules == {"bot_originated", "id_match", "empty_message", "not_mentioned"}

\* the first rule of the filter, in its order, that the event fails
FirstFailingRule(data) ==
    IF data.sender_type = "bot" THEN "bot_originated"
    ELSE IF data.sender_id = GROUPME_BOT_ID \/ data.user_id = GROUPME_BOT_ID THEN "id_match"
    ELSE IF BlankText(data.text) THEN "empty_message"
    ELSE IF ~Mentioned(data) THEN "not_mentioned"
    ELSE "none"

\* C19 as stated: the reason of every Ignored outcome identifies the rule that
\* rejected the event: it is the reason of the first rule the event fails and
\* of no other of the four rules.
C19_FourReasons ==
    \A t \in Threads :
        LET h == handler[t]
        IN  IsIgnored(h) =>
              \A r \in FilterRules :
                  h.response.message = reason_of(r) <=> r = FirstFailingRule(h.data)

\* C19 amended: the reason of every Ignored outcome is one of three,
\* bot_message when the first rule the event fails is the bot-originated rule
\* or the id-match rule, empty_message when it is the empty-message rule and
\* bot_not_mentioned when it is the not-mentioned rule.
C19_Reasons ==
    \A t \in Threads :
        LET h == handler[t]
            rule == FirstFailingRule(h.data)
        IN  IsIgnored(h) =>
              /\ IsEvent(h)
              /\ rule \in FilterRules
              /\ h.response.message = "bot_message" <=> rule \in {"bot_originated", "id_match"}
              /\ h.response.message = "empty_message" <=> rule = "empty_message"
              /\ h.response.message = "bot_not_mentioned" <=> rule = "not_mentioned"

\* an event of a user that carries the configured bot identifier and an empty
\* text, ignored as a bot message
C19_Witness ==
    \E t \in Threads :
        LET h == handler[t]
        IN  /\ IsIgnored(h)
            /\ GROUPME_BOT_ID # ""
            /\ h.data.sender_type = "user"
            /\ h.data.sender_id = GROUPME_BOT_ID
            /\ BlankText(h.data.text)
            /\ h.response = Ignored("bot_message")

----------------------------------------------------------------------------
(* C20: no lost updates *)

RECURSIVE SumTokens(_)
SumTokens(S) ==
    IF S = {} THEN 0
    ELSE LET t == CHOOSE x \in S : TRUE
         IN  handler[t].tokens_used + SumTokens(S \ {t})

\* the calls in progress or answered that have stored their tokens under day d
RecordedOn(d) == {t \in Threads : handler[t].ledger_writes = 1 /\ handler[t].usage_day = d}

\* every request served so far is still held by its thread
AllCallsVisible == Cardinality({t \in Threads : Handled(t)}) = served

\* C20: whatever the interleaving of concurrent calls, a day's count is the sum
\* of the tokens of the calls that recorded on that day, and the store of one
\* call adds its tokens to what the others have stored.
C20_NoLostUpdate ==
    /\ \A t \in Threads :
         handler[t].ledger_writes = 1 => handler[t].ledger_growth = handler[t].tokens_used
    /\ AllCallsVisible =>
         \A d \in Days : usage_get(daily_token_usage, d) = SumTokens(RecordedOn(d))

====
